---- MODULE Spec2Model ----
(***************************************************************************)
(* Model of the blog-list backend: the Express application of src/app.js   *)
(* (GET/POST/DELETE/PUT on /api/blogs, the unknown-endpoint fallback and   *)
(* the error handler), over a document store holding the Blog collection,  *)
(* plus the user-registration operation described in the specification.    *)
(*                                                                         *)
(* A JSON object is a record whose fields are optional values: <<>> is an  *)
(* absent key, <<v>> a key with value v.  A text (an error message, a      *)
(* malformed identifier) is a sequence of words, so that                   *)
(* String.prototype.includes is decided and not assumed.                   *)
(***************************************************************************)
EXTENDS Integers, Sequences, FiniteSets, TLC

VARIABLES posts,     \* the Blog collection: ObjectId (a number) -> stored document
          nextId,    \* the next ObjectId the driver generates
          users,     \* the User collection, in insertion order
          request,   \* the request being answered
          response,  \* the response sent for it
          error,     \* the exception handed to next(), or NoError
          effects    \* what the error path did, in order

vars == <<posts, nextId, users, request, response, error, effects>>

----------------------------------------------------------------------------
(* Bounds of the model *)

MaxPosts == 2
MaxUsers == 3

----------------------------------------------------------------------------
(* Values *)

None == <<>>
Some(v) == <<v>>

Tokens == {None, Some("u1"), Some("u2")}

Likes == {0, 1}

Oid(n) == [kind |-> "oid", n |-> n, words |-> <<>>]
Str(w) == [kind |-> "str", n |-> 0, words |-> w]
NoPath == [kind |-> "none", n |-> 0, words |-> <<>>]

NullPhrase == <<"Cannot", "read", "properties", "of", "null">>

PathIds == {Oid(n) : n \in 1..MaxPosts} \cup {Str(<<"abc">>), Str(NullPhrase)}

EmptyBody == [id |-> None, title |-> None, author |-> None, url |-> None,
              likes |-> None, user |-> None]

ValidBodies == [id : {None}, title : {Some("t1"), Some("t2")}, author : {Some("a1")},
                url : {Some("u1")},
                likes : {None} \cup {Some(l) : l \in Likes},
                user : {None, Some("u1")}]

InvalidBodies ==
    { [EmptyBody EXCEPT !.title = t, !.url = u, !.likes = Some(1)] :
        <<t, u>> \in { <<None, Some("u1")>>, <<Some(""), Some("u1")>>,
                       <<Some("t1"), None>>, <<Some("t1"), Some("")>>,
                       <<Some(""), None>> } }

Bodies == ValidBodies \cup InvalidBodies

NoError == [name |-> "", message |-> <<>>]

NoAccount == [username |-> <<>>, name |-> <<>>, password |-> <<>>]

NoResponse == [status |-> 0, kind |-> "none", doc |-> EmptyBody, list |-> <<>>,
               text |-> <<>>, deleted |-> None, account |-> NoAccount]

Reply(status, kind) == [NoResponse EXCEPT !.status = status, !.kind = kind]

----------------------------------------------------------------------------
(* Texts *)

Includes(hay, needle) ==
    \E i \in 0..(Len(hay) - Len(needle)) : SubSeq(hay, i + 1, i + Len(needle)) = needle

----------------------------------------------------------------------------
(* The Blog model: schema validation, defaults and JSON form *)

Blank(field) == field = None \/ field = Some("")

\* the paths whose `required` validator fails for a new document, in schema order
RequiredFailures(body) ==
    (IF Blank(body.title) THEN <<"title">> ELSE <<>>) \o
    (IF Blank(body.url) THEN <<"url">> ELSE <<>>)

\* the paths an update explicitly sets to an empty value (update validators
\* run only on the paths the update names)
UpdateFailures(body) ==
    (IF body.title = Some("") THEN <<"title">> ELSE <<>>) \o
    (IF body.url = Some("") THEN <<"url">> ELSE <<>>)

RECURSIVE RequiredText(_)
RequiredText(paths) ==
    IF paths = <<>> THEN <<>>
    ELSE <<Head(paths), ":", "Path", Head(paths), "is", "required">> \o
         RequiredText(Tail(paths))

ValidationError(prefix, paths) ==
    [name |-> "ValidationError",
     message |-> prefix \o <<"validation", "failed", ":">> \o RequiredText(paths)]

CastError(id) ==
    [name |-> "CastError",
     message |-> <<"Cast", "to", "ObjectId", "failed", "for", "value">> \o id.words \o
                 <<"at", "path", "_id", "for", "model", "Blog">>]

\* reading `.id` of the null a query for a missing document resolves to
NullDereference ==
    [name |-> "TypeError", message |-> NullPhrase \o <<"(reading", "'id')">>]

\* new Blog(body): schema fields kept, `likes` defaulting to 0
NewBlog(body) ==
    [title |-> body.title[1], author |-> body.author, url |-> body.url[1],
     likes |-> IF body.likes = None THEN 0 ELSE body.likes[1],
     user |-> body.user]

\* $set of the schema fields the body carries; other keys (`id`) are dropped
ApplyUpdate(doc, body) ==
    [title |-> IF body.title = None THEN doc.title ELSE body.title[1],
     author |-> IF body.author = None THEN doc.author ELSE body.author,
     url |-> IF body.url = None THEN doc.url ELSE body.url[1],
     likes |-> IF body.likes = None THEN doc.likes ELSE body.likes[1],
     user |-> IF body.user = None THEN doc.user ELSE body.user]

\* the toJSON transform: `_id` is exposed as `id`
toJSON(n, doc) ==
    [id |-> Some(n), title |-> Some(doc.title), author |-> doc.author,
     url |-> Some(doc.url), likes |-> Some(doc.likes), user |-> doc.user]

RECURSIVE Ascending(_)
Ascending(S) ==
    IF S = {} THEN <<>>
    ELSE LET m == CHOOSE x \in S : \A y \in S : x <= y
         IN <<m>> \o Ascending(S \ {m})

\* Blog.find({}): every document, in insertion order
Listing(store) ==
    LET ids == Ascending(DOMAIN store)
    IN [i \in 1..Len(ids) |-> toJSON(ids[i], store[ids[i]])]

Remove(store, n) == [i \in (DOMAIN store) \ {n} |-> store[i]]

Insert(store, n, doc) == [i \in (DOMAIN store) \cup {n} |-> IF i = n THEN doc ELSE store[i]]

----------------------------------------------------------------------------
(* Error translation *)

Effect(op, text) == [op |-> op, text |-> text]

\* Express' final handler, reached through next(error)
finalHandler(e) == Reply(500, "html")

\* errorHandler without its ValidationError branch
errorHandlerNoValidation(e) ==
    LET log == Effect("logger.error", e.message)
    IN IF e.name = "CastError"
       THEN [effects |-> <<log, Effect("send", <<>>)>>,
             response |-> [Reply(400, "error") EXCEPT !.text = <<"malformatted", "id">>]]
       ELSE IF Includes(e.message, NullPhrase)
       THEN [effects |-> <<log, Effect("send", <<>>)>>,
             response |-> [Reply(404, "error") EXCEPT !.text = e.message]]
       ELSE [effects |-> <<log, Effect("next", <<>>)>>, response |-> finalHandler(e)]

\* errorHandler testing the CastError name after the other two conditions
errorHandlerCastLast(e) ==
    LET log == Effect("logger.error", e.message)
    IN IF e.name = "ValidationError"
       THEN [effects |-> <<log, Effect("send", <<>>)>>,
             response |-> [Reply(400, "error") EXCEPT !.text = e.message]]
       ELSE IF Includes(e.message, NullPhrase)
       THEN [effects |-> <<log, Effect("send", <<>>)>>,
             response |-> [Reply(404, "error") EXCEPT !.text = e.message]]
       ELSE IF e.name = "CastError"
       THEN [effects |-> <<log, Effect("send", <<>>)>>,
             response |-> [Reply(400, "error") EXCEPT !.text = <<"malformatted", "id">>]]
       ELSE [effects |-> <<log, Effect("next", <<>>)>>, response |-> finalHandler(e)]

errorHandler(e) ==
    LET log == Effect("logger.error", e.message)
    IN IF e.name = "CastError"
       THEN [effects |-> <<log, Effect("send", <<>>)>>,
             response |-> [Reply(400, "error") EXCEPT !.text = <<"malformatted", "id">>]]
       ELSE IF e.name = "ValidationError"
       THEN [effects |-> <<log, Effect("send", <<>>)>>,
             response |-> [Reply(400, "error") EXCEPT !.text = e.message]]
       ELSE IF Includes(e.message, NullPhrase)
       THEN [effects |-> <<log, Effect("send", <<>>)>>,
             response |-> [Reply(404, "error") EXCEPT !.text = e.message]]
       ELSE [effects |-> <<log, Effect("next", <<>>)>>, response |-> finalHandler(e)]

\* catch (exception) { next(exception) }
Throw(e) ==
    /\ error' = e
    /\ effects' = errorHandler(e).effects
    /\ response' = errorHandler(e).response

Send(r) ==
    /\ error' = NoError
    /\ effects' = <<>>
    /\ response' = r

Req(method, route, id, token, body) ==
    [method |-> method, route |-> route, id |-> id, token |-> token, body |-> body,
     account |-> NoAccount]

----------------------------------------------------------------------------
(* Initial state: an empty store, nothing answered yet *)

Init ==
    /\ posts = <<>>
    /\ nextId = 1
    /\ users = <<>>
    /\ request = Req("", "", NoPath, None, EmptyBody)
    /\ response = NoResponse
    /\ error = NoError
    /\ effects = <<>>

----------------------------------------------------------------------------
(* Request handlers *)

GetBlogs ==
    /\ request' = Req("GET", "/api/blogs", NoPath, None, EmptyBody)
    /\ Send([Reply(200, "list") EXCEPT !.list = Listing(posts)])
    /\ UNCHANGED <<posts, nextId, users>>

\* PostBlog answering 201 without the document having been saved
PostBlogNoSave(token, body) ==
    /\ nextId <= MaxPosts
    /\ request' = Req("POST", "/api/blogs", NoPath, token, body)
    /\ IF RequiredFailures(body) # <<>>
       THEN /\ Throw(ValidationError(<<"Blog">>, RequiredFailures(body)))
            /\ UNCHANGED <<posts, nextId>>
       ELSE /\ nextId' = nextId + 1
            /\ Send([Reply(201, "doc") EXCEPT !.doc = toJSON(nextId, NewBlog(body))])
            /\ UNCHANGED posts
    /\ UNCHANGED users

\* PostBlog storing a like count of 0 whatever the body carries
PostBlogLikesReset(token, body) ==
    /\ nextId <= MaxPosts
    /\ request' = Req("POST", "/api/blogs", NoPath, token, body)
    /\ IF RequiredFailures(body) # <<>>
       THEN /\ Throw(ValidationError(<<"Blog">>, RequiredFailures(body)))
            /\ UNCHANGED <<posts, nextId>>
       ELSE /\ posts' = Insert(posts, nextId, [NewBlog(body) EXCEPT !.likes = 0])
            /\ nextId' = nextId + 1
            /\ Send([Reply(201, "doc") EXCEPT
                       !.doc = toJSON(nextId, [NewBlog(body) EXCEPT !.likes = 0])])
    /\ UNCHANGED users

\* app.post('/api/blogs'): the token is not read; the document is built from the
\* body, validated and inserted under a fresh ObjectId
PostBlog(token, body) ==
    /\ nextId <= MaxPosts
    /\ request' = Req("POST", "/api/blogs", NoPath, token, body)
    /\ IF RequiredFailures(body) # <<>>
       THEN /\ Throw(ValidationError(<<"Blog">>, RequiredFailures(body)))
            /\ UNCHANGED <<posts, nextId>>
       ELSE /\ posts' = Insert(posts, nextId, NewBlog(body))
            /\ nextId' = nextId + 1
            /\ Send([Reply(201, "doc") EXCEPT !.doc = toJSON(nextId, NewBlog(body))])
    /\ UNCHANGED users

\* DeleteBlog reading the id of the query result with `result?.id`
DeleteBlogOptionalChaining(token, id) ==
    /\ request' = Req("DELETE", "/api/blogs/:id", id, token, EmptyBody)
    /\ IF id.kind # "oid"
       THEN /\ Throw(CastError(id))
            /\ UNCHANGED posts
       ELSE IF id.n \in DOMAIN posts
       THEN /\ posts' = Remove(posts, id.n)
            /\ Send([Reply(204, "empty") EXCEPT !.deleted = Some(id.n)])
       ELSE /\ Send(Reply(204, "empty"))
            /\ UNCHANGED posts
    /\ UNCHANGED <<nextId, users>>

\* app.delete('/api/blogs/:id'): the token is not read.  A route parameter is
\* never undefined or null, so the `Invalid id` branch is not taken.
DeleteBlog(token, id) ==
    /\ request' = Req("DELETE", "/api/blogs/:id", id, token, EmptyBody)
    /\ IF id.kind # "oid"
       THEN /\ Throw(CastError(id))
            /\ UNCHANGED posts
       ELSE IF id.n \in DOMAIN posts
       THEN /\ posts' = Remove(posts, id.n)
            /\ Send([Reply(204, "empty") EXCEPT !.deleted = Some(id.n)])
       ELSE /\ Throw(NullDereference)
            /\ UNCHANGED posts
    /\ UNCHANGED <<nextId, users>>

\* PutBlog answering with the document as it was before the update ({new: false})
PutBlogReturnsOld(id, body) ==
    /\ request' = Req("PUT", "/api/blogs/:id", id, None, body)
    /\ IF id.kind # "oid"
       THEN /\ Throw(CastError(id))
            /\ UNCHANGED posts
       ELSE IF UpdateFailures(body) # <<>>
       THEN /\ Throw(ValidationError(<<>>, UpdateFailures(body)))
            /\ UNCHANGED posts
       ELSE IF id.n \in DOMAIN posts
       THEN /\ posts' = [posts EXCEPT ![id.n] = ApplyUpdate(posts[id.n], body)]
            /\ Send([Reply(200, "doc") EXCEPT !.doc = toJSON(id.n, posts[id.n])])
       ELSE /\ Send(Reply(200, "null"))
            /\ UNCHANGED posts
    /\ UNCHANGED <<nextId, users>>

\* app.put('/api/blogs/:id'): no token is read.  findByIdAndUpdate resolves to
\* null for an id that matches no document, and response.json(null) answers 200.
PutBlog(id, body) ==
    /\ request' = Req("PUT", "/api/blogs/:id", id, None, body)
    /\ IF id.kind # "oid"
       THEN /\ Throw(CastError(id))
            /\ UNCHANGED posts
       ELSE IF UpdateFailures(body) # <<>>
       THEN /\ Throw(ValidationError(<<>>, UpdateFailures(body)))
            /\ UNCHANGED posts
       ELSE IF id.n \in DOMAIN posts
       THEN /\ posts' = [posts EXCEPT ![id.n] = ApplyUpdate(posts[id.n], body)]
            /\ Send([Reply(200, "doc") EXCEPT
                       !.doc = toJSON(id.n, ApplyUpdate(posts[id.n], body))])
       ELSE /\ Send(Reply(200, "null"))
            /\ UNCHANGED posts
    /\ UNCHANGED <<nextId, users>>

unknownEndpoint ==
    /\ request' = Req("GET", "*", NoPath, None, EmptyBody)
    /\ Send([Reply(404, "error") EXCEPT !.text = <<"unknown", "endpoint">>])
    /\ UNCHANGED <<posts, nextId, users>>

\* the document a client holding the listing submits: it carries the post's id
Submitted(id, body) == IF id.kind = "oid" THEN [body EXCEPT !.id = Some(id.n)] ELSE body

Next ==
    \/ GetBlogs
    \/ \E token \in Tokens, body \in Bodies : PostBlog(token, body)
    \/ \E token \in Tokens, id \in PathIds : DeleteBlog(token, id)
    \/ \E id \in PathIds, body \in Bodies : PutBlog(id, Submitted(id, body))
    \/ unknownEndpoint

Spec == Init /\ [][Next]_vars

----------------------------------------------------------------------------
(* Properties of the post operations *)

IsPost(r) == r.method = "POST" /\ r.route = "/api/blogs"
IsPut(r) == r.method = "PUT" /\ r.route = "/api/blogs/:id"
IsDelete(r) == r.method = "DELETE" /\ r.route = "/api/blogs/:id"

Titles(list) == {list[i].title : i \in 1..Len(list)}

OthersKept(n) ==
    \A i \in (DOMAIN posts) \ {n} : i \in DOMAIN posts' /\ posts'[i] = posts[i]

\* C1: a DELETE of an existing, owned post answers 204 and removes exactly that
\* post when the token is the owner's, and answers 403 and leaves the collection
\* unchanged when the token is another user's.
C1_DeleteOnlyByOwner ==
    [][(/\ IsDelete(request')
        /\ request'.id.kind = "oid"
        /\ request'.id.n \in DOMAIN posts
        /\ posts[request'.id.n].user # None
        /\ request'.token # None)
       => IF request'.token = posts[request'.id.n].user
          THEN /\ response'.status = 204
               /\ posts' = Remove(posts, request'.id.n)
          ELSE /\ response'.status = 403
               /\ posts' = posts]_vars

\* C2: a POST /api/blogs without a bearer token answers 401 with an error
\* containing "unauthorized" and leaves the collection unchanged.
C2_PostWithoutTokenRejected ==
    [][(IsPost(request') /\ request'.token = None)
       => /\ response'.status = 401
          /\ Includes(response'.text, <<"unauthorized">>)
          /\ posts' = posts]_vars

\* C3: a POST /api/blogs with a token and a body with non-empty title and url
\* answers 201, stores exactly one more post, leaves every stored post as it
\* was, and the new title is in the listing.
C3_ValidPostAddsOne ==
    [][(/\ IsPost(request')
        /\ request'.token # None
        /\ ~Blank(request'.body.title)
        /\ ~Blank(request'.body.url))
       => /\ response'.status = 201
          /\ Cardinality(DOMAIN posts') = Cardinality(DOMAIN posts) + 1
          /\ DOMAIN posts \subseteq DOMAIN posts'
          /\ \A i \in DOMAIN posts : posts'[i] = posts[i]
          /\ request'.body.title \in Titles(Listing(posts'))]_vars

C3_Witness ==
    /\ IsPost(request)
    /\ request.token # None
    /\ response.status = 201
    /\ Cardinality(DOMAIN posts) = 2
    /\ request.body.title \in Titles(Listing(posts))

\* C4: a POST /api/blogs whose title or url is missing or empty answers 400
\* with an error containing "Blog validation failed" and stores nothing.
C4_InvalidPostRejected ==
    [][(IsPost(request') /\ (Blank(request'.body.title) \/ Blank(request'.body.url)))
       => /\ response'.status = 400
          /\ response'.kind = "error"
          /\ Includes(response'.text, <<"Blog", "validation", "failed">>)
          /\ posts' = posts
          /\ nextId' = nextId]_vars

C4_Witness ==
    /\ IsPost(request)
    /\ request.body.title = Some("t1")
    /\ request.body.url = None
    /\ response.status = 400
    /\ Includes(response.text, <<"Blog", "validation", "failed">>)
    /\ DOMAIN posts # {}

\* C5: a PUT whose id is well-formed but matches no post answers 404 and
\* neither creates nor changes a post.
C5_PutMissingIs404 ==
    [][(/\ IsPut(request')
        /\ request'.id.kind = "oid"
        /\ request'.id.n \notin DOMAIN posts
        /\ UpdateFailures(request'.body) = <<>>)
       => /\ response'.status = 404
          /\ posts' = posts]_vars

\* C6: a PUT that submits an existing post's document with likes increased by
\* one answers 200 with a body equal to the submitted document; the stored post
\* then equals that document and the set of stored posts is the same.
C6_UpdateRoundTrip ==
    [][(/\ IsPut(request')
        /\ request'.id.kind = "oid"
        /\ request'.id.n \in DOMAIN posts
        /\ request'.body =
              [toJSON(request'.id.n, posts[request'.id.n]) EXCEPT
                  !.likes = Some(posts[request'.id.n].likes + 1)])
       => /\ response'.status = 200
          /\ response'.kind = "doc"
          /\ response'.doc = request'.body
          /\ DOMAIN posts' = DOMAIN posts
          /\ toJSON(request'.id.n, posts'[request'.id.n]) = request'.body
          /\ OthersKept(request'.id.n)]_vars

C6_Witness ==
    /\ IsPut(request)
    /\ response.status = 200
    /\ response.kind = "doc"
    /\ response.doc = request.body
    /\ request.body.likes = Some(1)
    /\ request.body.id = Some(1)
    /\ Cardinality(DOMAIN posts) = 2

\* C8: a DELETE whose id matches no post (as a repeated DELETE does) changes
\* nothing in the store and ends in the 404 branch of the error handler; a
\* DELETE answered 204 leaves no post under that id.
C8_DeleteIdempotent ==
    [][/\ (IsDelete(request') /\ request'.id.kind = "oid"
              /\ request'.id.n \notin DOMAIN posts)
          => /\ posts' = posts
             /\ response'.status = 404
             /\ error'.name = "TypeError"
       /\ (IsDelete(request') /\ response'.status = 204)
          => /\ request'.id.n \notin DOMAIN posts'
             /\ posts' = Remove(posts, request'.id.n)]_vars

C8_Witness ==
    /\ IsDelete(request)
    /\ request.id.kind = "oid"
    /\ request.id.n < nextId
    /\ request.id.n \notin DOMAIN posts
    /\ response.status = 404
    /\ DOMAIN posts # {}

\* C9: after an accepted creation the stored post and the returned document
\* have likes 0 when the body omits likes, and the supplied value otherwise.
C9_LikesDefault ==
    (IsPost(request) /\ response.status = 201)
    => LET n == response.doc.id[1]
           expected == IF request.body.likes = None THEN 0 ELSE request.body.likes[1]
       IN /\ n \in DOMAIN posts
          /\ posts[n].likes = expected
          /\ response.doc.likes = Some(expected)

C9_Witness ==
    /\ IsPost(request)
    /\ response.status = 201
    /\ request.body.likes = None
    /\ response.doc.likes = Some(0)
    /\ \E n \in DOMAIN posts : posts[n].likes = 1

----------------------------------------------------------------------------
(* User registration, POST /api/users *)

MinUsernameLength == 3
MinPasswordLength == 3

Usernames == { <<"m", "l">>, <<"a", "d", "a">>, <<"b", "o", "b">>,
               <<"r", "o", "o", "t">>, <<"m", "l", "u", "u">> }

Passwords == { <<"m", "e">>, <<"s", "a", "l", "a">> }

Accounts == [username : Usernames, name : {<<"n1">>}, password : Passwords]

StoredUsernames(store) == {store[i].username : i \in 1..Len(store)}

hash(password) == <<"$2b$10$">> \o password

PasswordPolicyText ==
    <<"Password", "must", "be", "at", "least", "3", "characters", "long">>

UsernameTooShort(username) ==
    [name |-> "ValidationError",
     message |-> <<"User", "validation", "failed", ":", "username", ":", "Path",
                   "username">> \o username \o
                 <<"is", "shorter", "than", "the", "minimum", "allowed", "length">>]

UsernameTaken(username) ==
    [name |-> "ValidationError",
     message |-> <<"User", "validation", "failed", ":", "username", ":", "Error,",
                   "expected", "username", "to", "be", "unique", "Value:">> \o
                 username]

UserReq(account) ==
    [Req("POST", "/api/users", NoPath, None, EmptyBody) EXCEPT !.account = account]

\* CreateUser saving without the uniqueness check
CreateUserNoUniqueCheck(account) ==
    /\ request' = UserReq(account)
    /\ IF Len(account.password) < MinPasswordLength
       THEN /\ Send([Reply(400, "errors") EXCEPT !.text = PasswordPolicyText])
            /\ UNCHANGED users
       ELSE IF Len(account.username) < MinUsernameLength
       THEN /\ Throw(UsernameTooShort(account.username))
            /\ UNCHANGED users
       ELSE /\ Len(users) < MaxUsers
            /\ users' = Append(users, [username |-> account.username,
                                       name |-> account.name,
                                       passwordHash |-> hash(account.password)])
            /\ Send([Reply(201, "user") EXCEPT
                       !.account = [account EXCEPT !.password = <<>>]])
    /\ UNCHANGED <<posts, nextId>>

CreateUser(account) ==
    /\ request' = UserReq(account)
    /\ IF Len(account.password) < MinPasswordLength
       THEN /\ Send([Reply(400, "errors") EXCEPT !.text = PasswordPolicyText])
            /\ UNCHANGED users
       ELSE IF Len(account.username) < MinUsernameLength
       THEN /\ Throw(UsernameTooShort(account.username))
            /\ UNCHANGED users
       ELSE IF account.username \in StoredUsernames(users)
       THEN /\ Throw(UsernameTaken(account.username))
            /\ UNCHANGED users
       ELSE /\ Len(users) < MaxUsers
            /\ users' = Append(users, [username |-> account.username,
                                       name |-> account.name,
                                       passwordHash |-> hash(account.password)])
            /\ Send([Reply(201, "user") EXCEPT
                       !.account = [account EXCEPT !.password = <<>>]])
    /\ UNCHANGED <<posts, nextId>>

NextUsers == \E account \in Accounts : CreateUser(account)

SpecUsers == Init /\ [][NextUsers]_vars

IsCreateUser(r) == r.method = "POST" /\ r.route = "/api/users"

----------------------------------------------------------------------------
(* The error handler on its own: every error it can be handed *)

ErrorNames == {"CastError", "ValidationError", "TypeError", "MongoServerError",
               "SyntaxError"}

ErrorMessages ==
    { CastError(Str(<<"abc">>)).message,
      CastError(Str(NullPhrase)).message,
      NullDereference.message,
      ValidationError(<<"Blog">>, <<"title">>).message,
      <<"Validator", "failed", "for", "value">> \o NullPhrase,
      <<"Cannot", "read", "properties", "of", "undefined">>,
      <<"E11000", "duplicate", "key", "error">> }

ErrorInputs == [name : ErrorNames, message : ErrorMessages]

ErrorStores ==
    { <<>>,
      Insert(<<>>, 1, [title |-> "t1", author |-> Some("a1"), url |-> "u1",
                       likes |-> 0, user |-> None]) }

InitErr ==
    /\ posts \in ErrorStores
    /\ nextId = Cardinality(DOMAIN posts) + 1
    /\ users = <<>>
    /\ request = Req("", "", NoPath, None, EmptyBody)
    /\ response = NoResponse
    /\ error \in ErrorInputs
    /\ effects = <<>>

\* next(exception) reaching app.use(errorHandler)
HandleError ==
    /\ response = NoResponse
    /\ Throw(error)
    /\ UNCHANGED <<posts, nextId, users, request>>

SpecErr == InitErr /\ [][HandleError]_vars

Logged(trace) == {i \in 1..Len(trace) : trace[i].op = "logger.error"}

\* C10: the error handler answers by precedence: CastError gives 400
\* `malformatted id`; otherwise ValidationError gives 400 with the message;
\* otherwise a message containing the null-dereference phrase gives 404 with the
\* message; anything else is passed on (500).  The message is logged exactly
\* once, before the answer, and no stored data changes.
C10_ErrorPrecedence ==
    [][LET e == error'
           r == response'
           cast == e.name = "CastError"
           validation == ~cast /\ e.name = "ValidationError"
           null == ~cast /\ ~validation /\ Includes(e.message, NullPhrase)
       IN /\ cast => r.status = 400 /\ r.text = <<"malformatted", "id">>
                        /\ effects'[2].op = "send"
          /\ validation => r.status = 400 /\ r.text = e.message
                              /\ effects'[2].op = "send"
          /\ null => r.status = 404 /\ r.text = e.message /\ effects'[2].op = "send"
          /\ (~cast /\ ~validation /\ ~null) => r.status = 500
                                                   /\ effects'[2].op = "next"
          /\ Len(effects') = 2
          /\ Logged(effects') = {1}
          /\ effects'[1].text = e.message
          /\ posts' = posts /\ nextId' = nextId /\ users' = users]_vars

C10_Witness ==
    /\ error.name = "CastError"
    /\ Includes(error.message, NullPhrase)
    /\ response.status = 400
    /\ response.text = <<"malformatted", "id">>
    /\ Len(effects) = 2
    /\ DOMAIN posts # {}

====
